---- MODULE Spec2Model ----
(***************************************************************************)
(* Model of serapis' search aggregator (serapis/search.py) and of its      *)
(* task pipeline (serapis/tasks.py).                                       *)
(*                                                                         *)
(* Time is counted in quarters of a second, so that time.sleep(.5) is      *)
(* PollInterval = 2 units and config.max_search_duration may or may not be *)
(* a multiple of the polling interval.                                     *)
(*                                                                         *)
(* Python dicts are functions over a set of string keys, Python lists are  *)
(* sequences, None among dicts is the value NoneVal.                       *)
(***************************************************************************)
EXTENDS Integers, Sequences, FiniteSets, TLC

\* ------------------------------------------------------------------ bounds
MaxN == 2          \* most items in a primary provider's response
MaxDur == 1        \* largest config.max_search_duration, in quarter seconds

PollInterval == 2  \* time.sleep(.5), in quarter seconds

\* ------------------------------------------------------------- dict helpers
NoneVal == [py_none |-> TRUE]

Put(d, k, v) == [x \in (DOMAIN d) \cup {k} |-> IF x = k THEN v ELSE d[x]]

Has(d, k) == k \in DOMAIN d

\* Python truth value of a dict-or-None list entry (`if url_object`)
Truthy(x) == x # NoneVal /\ DOMAIN x # {}

RECURSIVE FilterTruthy(_)
FilterTruthy(s) ==
    IF s = <<>> THEN <<>>
    ELSE IF Truthy(Head(s)) THEN <<Head(s)>> \o FilterTruthy(Tail(s))
         ELSE FilterTruthy(Tail(s))

\* ------------------------------------------------------------------- urls
\* A url is a sequence of characters / character groups.
U_plain  == <<"h", "a", "/", "x">>
U_other  == <<"h", "b", "/", "y">>
U_excl   == <<"h", "p", "i", "n", "/", "x">>
U_pdf    == <<"h", "a", "/", "x", ".", "p", "d", "f">>

\* further urls the qualifier is tried on: the excluded domain in the path,
\* and only part of it; ".pdf" inside the path, in the query and in the
\* host; a .pdf path followed by a query; no path at all
QualifierUrls ==
    { U_plain, U_other, U_excl, U_pdf,
      <<"h", "a", "/", "p", "i", "n">>,
      <<"h", "p", "i", "/", "n">>,
      <<"h", "a", "/", "x", ".", "p", "d", "f", "/", "y">>,
      <<"h", "a", "/", "x", "?", "q", ".", "p", "d", "f">>,
      <<"h", "a", ".", "p", "d", "f">>,
      <<"h", "a", "/", "x", ".", "p", "d", "f", "?", "q">>,
      <<"h", "a">> }

QualifierTexts == { "", "en", "xx" }

QualifierDates == { "None", "2015-11-20", "2016-01-01" }

\* config.exclude_domains
exclude_domains == { <<"p", "i", "n">> }

\* config.duckduckgo_sources
duckduckgo_sources == { "Wikipedia" }

\* python `sub in s` on strings
Contains(s, sub) ==
    \E i \in 1..(Len(s) + 1) :
        /\ i + Len(sub) - 1 <= Len(s)
        /\ SubSeq(s, i, i + Len(sub) - 1) = sub

EndsWith(s, suf) ==
    /\ Len(suf) <= Len(s)
    /\ SubSeq(s, Len(s) - Len(suf) + 1, Len(s)) = suf

\* the part of s before the first query or fragment mark
RECURSIVE BeforeQuery(_)
BeforeQuery(s) ==
    IF s = <<>> \/ Head(s) \in { "?", "#" } THEN <<>>
    ELSE <<Head(s)>> \o BeforeQuery(Tail(s))

\* what follows scheme and host, from the first "/" on
RECURSIVE FromSlash(_)
FromSlash(u) ==
    IF u = <<>> THEN <<>>
    ELSE IF Head(u) = "/" THEN u
         ELSE FromSlash(Tail(u))

\* urlparse.urlparse(url).path: from the first "/" after the host up to the
\* query or the fragment ("h" stands for the scheme and its "//")
UrlPath(u) == FromSlash(BeforeQuery(u))

\* is_english(text): the text of a snippet is modelled by its language
is_english(text) == text = "en"

\* Faulty variant of qualify_search_result: the excluded domains are not looked at
qualify_search_result_nodomain(url, text, date) ==
    /\ ~(text # "" /\ ~is_english(text))
    /\ ~EndsWith(UrlPath(url), <<".", "p", "d", "f">>)

\* Faulty variant of qualify_search_result: ".pdf" is looked for anywhere
qualify_search_result_anypdf(url, text, date) ==
    /\ \A domain \in exclude_domains : ~Contains(url, domain)
    /\ ~(text # "" /\ ~is_english(text))
    /\ ~Contains(url, <<".", "p", "d", "f">>)

\* qualify_search_result(url, text, date=None); date is never read
qualify_search_result(url, text, date) ==
    /\ \A domain \in exclude_domains : ~Contains(url, domain)
    /\ ~(text # "" /\ ~is_english(text))
    /\ ~EndsWith(UrlPath(url), <<".", "p", "d", "f">>)

\* ------------------------------------------------------ provider responses
\* One item of a primary provider's response: link / Url and
\* snippet / Description ("" is an empty preview); an item may lack its link.
Item(link, snippet) == [link |-> link, snippet |-> snippet, title |-> "t"]

ITEMS == { Item(U_plain, "en"), Item(U_other, ""), Item(U_excl, "en"),
           Item(U_pdf, "en"), Item(U_plain, "xx"),
           [snippet |-> "en", title |-> "t"] }

RECURSIVE SeqsUpTo(_, _)
SeqsUpTo(S, n) ==
    IF n = 0 THEN { <<>> }
    ELSE LET shorter == SeqsUpTo(S, n - 1)
         IN  shorter \cup { Append(s, x) : s \in { t \in shorter : Len(t) = n - 1 }, x \in S }

\* What the outbound request of a primary provider can yield: the request
\* itself raises ("neterr"), the body is no JSON ("badjson"), or a list of
\* items is obtained.
PrimaryResponses ==
    { [kind |-> "neterr", items |-> <<>>], [kind |-> "badjson", items |-> <<>>] }
    \cup { [kind |-> "ok", items |-> s] : s \in SeqsUpTo(ITEMS, MaxN) }

\* the url_object a primary adapter appends for one qualifying item
CandidateResult(provider, item) ==
    [url |-> item.link, search_provider |-> provider, date |-> "None",
     summary |-> item.snippet, title |-> item.title]

\* The `for search_result in data` loop of search_google / search_bing.
\* Result: [raised, value].
RECURSIVE AdapterLoop(_, _)
AdapterLoop(provider, data) ==
    IF data = <<>> THEN [raised |-> FALSE, value |-> <<>>]
    ELSE IF ~Has(Head(data), "link") THEN [raised |-> TRUE, value |-> <<>>]
    ELSE LET rest == AdapterLoop(provider, Tail(data))
         IN  IF rest.raised THEN rest
             ELSE IF qualify_search_result(Head(data).link, Head(data).snippet, "None")
                  THEN [raised |-> FALSE,
                        value |-> <<CandidateResult(provider, Head(data))>> \o rest.value]
                  ELSE rest

\* search_google / search_bing on one response. When requests.get/post
\* itself raises, the except clause formats r.status_code with r unbound,
\* which raises out of the adapter.
search_primary(provider, resp) ==
    IF resp.kind = "neterr" THEN [raised |-> TRUE, value |-> <<>>, logged |-> FALSE]
    ELSE IF resp.kind = "badjson" THEN [raised |-> FALSE, value |-> <<>>, logged |-> TRUE]
    ELSE LET r == AdapterLoop(provider, resp.items)
         IN  [raised |-> r.raised, value |-> r.value, logged |-> FALSE]

search_google(resp) == search_primary("google", resp)

search_bing(resp) == search_primary("bing", resp)

\* ---- DuckDuckGo
\* A sentence as PageRequest.extract_sentences produces it
Sentence(s) == [s |-> s, s_clean |-> s]

DdgResponses ==
    { [kind |-> "neterr"] }
    \cup { [kind |-> "ok", source |-> src, abstract |-> a, definition |-> d] :
             src \in {"Wikipedia", "Other"}, a \in BOOLEAN, d \in BOOLEAN }
    \cup { [kind |-> "ok", abstract |-> TRUE, definition |-> FALSE] }

DdgEntry(url, source, doc) ==
    [title |-> "t", url |-> url, search_provider |-> "duckduckgo",
     author |-> "None", date |-> "None", source |-> source, doc |-> doc,
     sentences |-> <<Sentence(doc)>>, variants |-> <<>>]

search_duckduckgo(req) ==
    IF req.kind = "neterr" THEN [raised |-> FALSE, value |-> <<>>]
    ELSE IF ~Has(req, "source") THEN [raised |-> TRUE, value |-> <<>>]
    ELSE IF req.source \notin duckduckgo_sources THEN [raised |-> FALSE, value |-> <<>>]
    ELSE [raised |-> FALSE,
          value |-> (IF req.abstract THEN <<DdgEntry(U_plain, req.source, "abs")>> ELSE <<>>)
                    \o (IF req.definition THEN <<DdgEntry(U_other, req.source, "def")>> ELSE <<>>)]

\* ------------------------------------------------------------- enrichment
\* The sentences PageRequest(url, term).structured delivers: a page's
\* content goes with its url; some pages hold no sentence with the term
PageSentences(url) ==
    IF url = U_plain THEN <<Sentence("a"), Sentence("b")>> ELSE <<>>

\* What can happen inside one enrichment job: the page is extracted
\* ("ok"), PageRequest raises (caught at line 86), or the merge after the
\* try block raises (not caught by extract_wrapper).
Extractions == { "ok", "raise", "mergefail" }

\* merge_dict(url_object, result): the url_object plus the structured fields
merge_dict(url_object, structured) ==
    Put(Put(Put(url_object, "doc", "doc"), "sentences", structured), "variants", <<>>)

\* Faulty variant of extract_wrapper: the except clause returns nothing
extract_wrapper_dropping(url_object, ex) ==
    IF ex = "raise" THEN [failed |-> FALSE, value |-> NoneVal, logged |-> TRUE]
    ELSE IF ex = "mergefail" THEN [failed |-> TRUE, value |-> NoneVal, logged |-> FALSE]
    ELSE [failed |-> FALSE, value |-> merge_dict(url_object, PageSentences(url_object.url)), logged |-> FALSE]

\* extract_wrapper(url_object, term) under one extraction outcome
extract_wrapper(url_object, ex) ==
    IF ex = "raise" THEN [failed |-> FALSE, value |-> url_object, logged |-> TRUE]
    ELSE IF ex = "mergefail" THEN [failed |-> TRUE, value |-> NoneVal, logged |-> FALSE]
    ELSE [failed |-> FALSE, value |-> merge_dict(url_object, PageSentences(url_object.url)), logged |-> FALSE]

\* --------------------------------------------------------------- AsyncJob
\* A handle of the fork-join primitive: a completion flag and a value; the
\* value of a job whose function failed is absent (None). For an enrichment
\* job, ex notes what happened in it and byDeadline whether it completed
\* before max_search_duration had elapsed.
NewJob == [done |-> FALSE, value |-> NoneVal, ex |-> "running", byDeadline |-> FALSE]

\* A handle whose value is a list (the two jobs of search_all)
NewListJob == [started |-> FALSE, done |-> FALSE, isNone |-> TRUE, value |-> <<>>]

\* bool(job): a handle defines no truth value of its own, so it is true
JobTruthy(job) == TRUE

\* all(jobs)
AllJobs(js) == \A i \in 1..Len(js) : JobTruthy(js[i])

\* the reading the loop was meant to make: every job is done
AllDone(js) == \A i \in 1..Len(js) : js[i].done

DoneIdx(js) == { i \in 1..Len(js) : js[i].done }

\* Faulty variant of DoneValues: the values come out last job first
RECURSIVE DoneValuesReversed(_)
DoneValuesReversed(js) ==
    IF js = <<>> THEN <<>>
    ELSE IF Head(js).done THEN DoneValuesReversed(Tail(js)) \o <<Head(js).value>>
         ELSE DoneValuesReversed(Tail(js))

\* [job.value for job in jobs if job.done]
RECURSIVE DoneValues(_)
DoneValues(js) ==
    IF js = <<>> THEN <<>>
    ELSE IF Head(js).done THEN <<Head(js).value>> \o DoneValues(Tail(js))
         ELSE DoneValues(Tail(js))

\* Faulty variant of LoopTest: every job is awaited, the deadline forgotten
LoopTestNoDeadline(js, waited, maxdur) == ~AllDone(js)

\* `not all(jobs) and time_waited < config.max_search_duration`
LoopTest(js, waited, maxdur) == ~AllJobs(js) /\ waited < maxdur

\* ------------------------------------------------------------- search_all
Engines == { "bing", "google" }

\* Faulty variant of SelectEngine: an unknown engine falls back to bing
SelectEngineDefault(name) == IF name \in Engines THEN name ELSE "bing"

\* {'bing': search_bing, 'google': search_google}.get(config.search_engine)
SelectEngine(name) == IF name \in Engines THEN name ELSE "None"

\* search_func(term), for the engine selected
RunEngine(engine, resp) ==
    IF engine = "bing" THEN search_bing(resp) ELSE search_google(resp)

\* Faulty variant of OuterLoopTest: the wait ends when either job is done
OuterLoopTestEither(d, s) == ~(d.done \/ s.done)

\* `not (ddg.done and search.done)`, the loop test of search_all
OuterLoopTest(d, s) == ~(d.done /\ s.done)

\* Faulty variant of ValueOr: the bare job.value
ValueBare(job) == [isNone |-> job.isNone, value |-> job.value]

\* `job.value or []`
ValueOr(job) ==
    IF job.isNone \/ job.value = <<>> THEN [isNone |-> FALSE, value |-> <<>>]
    ELSE [isNone |-> FALSE, value |-> job.value]

\* Faulty variant of Combined: primary results first
CombinedSwapped(a, b) == b \o a

\* (ddg.value or []) + (search.value or [])
Combined(a, b) == a \o b

\* [url_object for url_object in combined if url_object]
Filtered(combined) == FilterTruthy(combined)

\* ---------------------------------------------------------- task pipeline
HashSlugs == { "lesprit:6ad283", "serapis:0c1f" }

\* Faulty variant of Key: the stage that writes, not the next one
KeyOfWriter(task, message) ==
    <<(IF task = "detect" THEN "search" ELSE IF task = "rate" THEN "detect" ELSE "rate"),
      ":", message["hashslug"]>>

\* "{}:{}".format(task, message['hashslug'])
Key(task, message) == <<task, ":", message["hashslug"]>>

\* batch_tag_sentences(message): every sentence gets its frd probability
TagSentence(sentence) == Put(sentence, "frd", "p")

batch_tag_sentences(message) ==
    Put(message, "urls",
        [i \in 1..Len(message["urls"]) |->
            LET u == message["urls"][i]
            IN  IF Has(u, "sentences")
                THEN Put(u, "sentences",
                         [k \in 1..Len(u["sentences"]) |-> TagSentence(u["sentences"][k])])
                ELSE u])

\* readability_score(url_object)
readability_score(url_object) == Put(url_object, "readability", "r")

\* url_object['sentences'][idx]['patterns'] = match_wordnik_rules(sentence_clean)
DetectSentence(sentence) == Put(sentence, "patterns", <<"rule", sentence["s_clean"]>>)

\* Faulty variant of DetectUrl: the sentences come out last first
DetectUrlReversed(url_object) ==
    LET scored == readability_score(url_object)
        n == Len(scored["sentences"])
    IN  Put(scored, "sentences",
            [k \in 1..n |-> DetectSentence(scored["sentences"][n + 1 - k])])

DetectUrl(url_object) ==
    LET scored == readability_score(url_object)
    IN  Put(scored, "sentences",
            [k \in 1..Len(scored["sentences"]) |-> DetectSentence(scored["sentences"][k])])

\* url_object['sentences'] raises KeyError for an entry without sentences
\* Faulty variant of DetectRaises: an empty urls list is indexed
DetectRaisesOnEmpty(message) ==
    \/ message["urls"] = <<>>
    \/ \E i \in 1..Len(message["urls"]) : ~Has(message["urls"][i], "sentences")

DetectRaises(message) ==
    \E i \in 1..Len(message["urls"]) : ~Has(message["urls"][i], "sentences")

\* Faulty variant of DetectBody: the message is given a hashslug of its own
DetectBodyRehash(message) ==
    LET tagged == batch_tag_sentences(message)
    IN  Put(Put(tagged, "urls",
                [i \in 1..Len(tagged["urls"]) |-> DetectUrl(tagged["urls"][i])]),
            "hashslug", "detect:rehashed")

\* the body of detect, for a message on which it does not raise
DetectBody(message) ==
    LET tagged == batch_tag_sentences(message)
    IN  Put(tagged, "urls",
            [i \in 1..Len(tagged["urls"]) |-> DetectUrl(tagged["urls"][i])])

\* Faulty variant of RateSentence: the sentence is replaced by its rating
RateSentenceFresh(sentence) == [rating |-> 0]

\* sentence['rating'] = 0
RateSentence(sentence) == Put(sentence, "rating", 0)

RateRaises(message) ==
    \E i \in 1..Len(message["urls"]) : ~Has(message["urls"][i], "sentences")

RateBody(message) ==
    Put(message, "urls",
        [i \in 1..Len(message["urls"]) |->
            LET u == message["urls"][i]
            IN  Put(u, "sentences",
                    [k \in 1..Len(u["sentences"]) |-> RateSentence(u["sentences"][k])])])

\* ------------------------------------------------------------------ state
VARIABLES
    search_engine,        \* config.search_engine
    max_search_duration,  \* config.max_search_duration, quarter seconds
    save_messages,        \* config.save_messages
    deadline_passed,      \* max_search_duration has elapsed since the jobs were scheduled
    sa_pc,                \* search_all: "idle", "join", "returned", "raised"
    sa_result,            \* what search_all returned
    ddg,                  \* the job async(search_duckduckgo, term)
    search,               \* the job async(search_and_parse, search_engine, term)
    sap_pc,               \* search_and_parse: "idle", "start", "poll", "collect", "returned", "raised"
    search_result,        \* search_and_parse: the provider's raw results
    jobs,                 \* search_and_parse: the enrichment jobs
    time_waited,          \* search_and_parse: polled time, quarter seconds
    collected,            \* the jobs search_and_parse found done when it collected
    lost,                 \* the "urls lost" count search_and_parse logs
    response,             \* how the primary provider's request ended, and the links it yielded
    invoked,              \* provider adapters that have been called
    log_errors,           \* what log.error has recorded
    pstage,               \* the stage to run next: "search" ... "done", or "aborted"
    message,              \* the message handed from stage to stage
    writes,               \* the puts made, in order: [store, key]
    s3,                   \* config.s3 bucket: key -> body
    local_s3,             \* config.local_s3 directory: key -> body
    qual                  \* one call of qualify_search_result: arguments and result

vars == <<search_engine, max_search_duration, save_messages, deadline_passed, sa_pc, sa_result,
          ddg, search, sap_pc, search_result, jobs, time_waited, collected, lost,
          response, invoked, log_errors, pstage, message, writes, s3, local_s3, qual>>

config_vars == <<search_engine, max_search_duration, save_messages>>
sa_vars == <<sa_pc, sa_result, ddg>>
sap_vars == <<search, sap_pc, search_result, jobs, time_waited, collected, lost>>
pipe_vars == <<pstage, message, writes, s3, local_s3>>

\* no request made yet
NoResponse == [kind |-> "none", links |-> {}]

\* the links held by the items of a response
Links(items) == { items[i].link : i \in { k \in 1..Len(items) : Has(items[k], "link") } }

\* qualify_search_result not called
NoCall == [pc |-> "idle", url |-> <<>>, text |-> "", date |-> "None", result |-> FALSE]

\* no body stored under any key
EmptyStore == [k \in {} |-> NoneVal]

InitPipeline ==
    /\ search_engine \in { "bing", "google", "yahoo" }
    /\ max_search_duration \in 0..MaxDur
    /\ save_messages \in BOOLEAN
    /\ deadline_passed = FALSE
    /\ sa_pc = "idle"
    /\ sa_result = <<>>
    /\ ddg = NewListJob
    /\ search = NewListJob
    /\ sap_pc = "idle"
    /\ search_result = <<>>
    /\ jobs = <<>>
    /\ time_waited = 0
    /\ collected = {}
    /\ lost = 0
    /\ response = NoResponse
    /\ invoked = {}
    /\ log_errors = {}
    /\ pstage = "search"
    /\ \E h \in HashSlugs : message = [word |-> "lesprit", hashslug |-> h]
    /\ writes = <<>>
    /\ s3 = EmptyStore
    /\ local_s3 = EmptyStore

Init == InitPipeline /\ qual = NoCall

\* ---------------------------------------------------------------- actions
\* search_all, lines 38-45: no known engine is configured
SaInvalidEngine ==
    /\ pstage = "search" /\ sa_pc = "idle"
    /\ SelectEngine(search_engine) = "None"
    /\ log_errors' = log_errors \cup { "invalid_engine" }
    /\ sa_result' = <<>>
    /\ sa_pc' = "returned"
    /\ UNCHANGED <<config_vars, qual, response, deadline_passed, ddg, sap_vars, invoked, pipe_vars>>

\* search_all, lines 47-49: the two jobs are scheduled
SaSchedule ==
    /\ pstage = "search" /\ sa_pc = "idle"
    /\ SelectEngine(search_engine) # "None"
    /\ ddg' = [ddg EXCEPT !.started = TRUE]
    /\ search' = [search EXCEPT !.started = TRUE]
    /\ sap_pc' = "start"
    /\ sa_pc' = "join"
    /\ UNCHANGED <<config_vars, qual, response, deadline_passed, sa_result, search_result, jobs, time_waited,
                   collected, lost, invoked, log_errors, pipe_vars>>

\* the worker of async(search_duckduckgo, term)
DdgRun ==
    /\ ddg.started /\ ~ddg.done
    /\ \E req \in DdgResponses :
         LET r == search_duckduckgo(req)
         IN  ddg' = [started |-> TRUE, done |-> TRUE, isNone |-> r.raised, value |-> r.value]
    /\ invoked' = invoked \cup { "duckduckgo" }
    /\ UNCHANGED <<config_vars, qual, response, deadline_passed, sa_pc, sa_result, sap_vars, log_errors, pipe_vars>>

\* search_and_parse, lines 71-73: the provider is called and one enrichment
\* job per raw result is scheduled; a provider that raises fails the job
SapSearch ==
    /\ sap_pc = "start"
    /\ \E resp \in PrimaryResponses :
         LET engine == SelectEngine(search_engine)
             r == RunEngine(engine, resp)
         IN  /\ invoked' = invoked \cup { engine }
             /\ response' = [kind |-> resp.kind, links |-> Links(resp.items)]
             /\ log_errors' = IF r.logged THEN log_errors \cup { "provider_failed" } ELSE log_errors
             /\ IF r.raised
                THEN /\ sap_pc' = "raised"
                     /\ search' = [search EXCEPT !.done = TRUE, !.isNone = TRUE]
                     /\ UNCHANGED <<search_result, jobs>>
                ELSE /\ sap_pc' = "poll"
                     /\ search_result' = r.value
                     /\ jobs' = [i \in 1..Len(r.value) |-> NewJob]
                     /\ UNCHANGED search
    /\ time_waited' = 0
    /\ deadline_passed' = (max_search_duration = 0)
    /\ UNCHANGED <<config_vars, qual, sa_vars, collected, lost, pipe_vars>>

\* Faulty variant of JobFinish: a job that completes after search_and_parse
\* has returned appends its value to the returned list
JobFinishPublishing(j) ==
    /\ j \in 1..Len(jobs)
    /\ pstage = "search"
    /\ ~jobs[j].done
    /\ \E ex \in Extractions :
         LET r == extract_wrapper(search_result[j], ex)
         IN  /\ jobs' = [jobs EXCEPT ![j] = [done |-> TRUE, value |-> r.value, ex |-> ex,
                                              byDeadline |-> ~deadline_passed]]
             /\ log_errors' = IF r.logged THEN log_errors \cup { "page_failed" } ELSE log_errors
             /\ search' = IF sap_pc = "returned"
                          THEN [search EXCEPT !.value = Append(@, r.value)]
                          ELSE search
    /\ UNCHANGED <<config_vars, qual, response, deadline_passed, sa_vars, sap_pc, search_result,
                   time_waited, collected, lost, invoked, pipe_vars>>

\* the worker of async(extract_wrapper, url_object, term), for job j; a job
\* left behind by search_and_parse keeps running, and is followed until
\* the search stage has handed its message on
JobFinish(j) ==
    /\ j \in 1..Len(jobs)
    /\ pstage = "search"
    /\ ~jobs[j].done
    /\ \E ex \in Extractions :
         LET r == extract_wrapper(search_result[j], ex)
         IN  /\ jobs' = [jobs EXCEPT ![j] = [done |-> TRUE, value |-> r.value, ex |-> ex,
                                              byDeadline |-> ~deadline_passed]]
             /\ log_errors' = IF r.logged THEN log_errors \cup { "page_failed" } ELSE log_errors
    /\ UNCHANGED <<config_vars, qual, response, deadline_passed, sa_vars, search, sap_pc, search_result,
                   time_waited, collected, lost, invoked, pipe_vars>>

\* Faulty variant of SapPoll: the wait goes on for as long as some job is
\* not done, and the time waited is not counted
SapPollNoDeadline ==
    /\ sap_pc = "poll"
    /\ IF ~AllDone(jobs)
       THEN UNCHANGED <<sap_pc, time_waited, deadline_passed>>
       ELSE /\ sap_pc' = "collect"
            /\ UNCHANGED <<time_waited, deadline_passed>>
    /\ UNCHANGED <<config_vars, qual, response, sa_vars, search, search_result, jobs, collected, lost,
                   invoked, log_errors, pipe_vars>>

\* search_and_parse, lines 74-76: one test of the loop condition, and one
\* sleep when it holds
SapPoll ==
    /\ sap_pc = "poll"
    /\ IF LoopTest(jobs, time_waited, max_search_duration)
       THEN /\ time_waited' = time_waited + PollInterval
            /\ deadline_passed' = (deadline_passed \/ time_waited' >= max_search_duration)
            /\ UNCHANGED sap_pc
       ELSE /\ sap_pc' = "collect"
            /\ UNCHANGED <<time_waited, deadline_passed>>
    /\ UNCHANGED <<config_vars, qual, response, sa_vars, search, search_result, jobs, collected, lost,
                   invoked, log_errors, pipe_vars>>

\* search_and_parse, lines 78-80: the values of the jobs that are done
SapCollect ==
    /\ sap_pc = "collect"
    /\ LET result == DoneValues(jobs)
       IN  /\ search' = [search EXCEPT !.done = TRUE, !.isNone = FALSE, !.value = result]
           /\ lost' = Len(search_result) - Len(result)
    /\ collected' = DoneIdx(jobs)
    /\ sap_pc' = "returned"
    /\ UNCHANGED <<config_vars, qual, response, deadline_passed, sa_vars, search_result, jobs, time_waited,
                   invoked, log_errors, pipe_vars>>

\* max_search_duration has gone by on the wall clock since the enrichment
\* jobs were scheduled, with some job still running
Deadline ==
    /\ sap_pc \in { "poll", "collect", "returned" }
    /\ pstage = "search"
    /\ ~deadline_passed
    /\ ~AllDone(jobs)
    /\ deadline_passed' = TRUE
    /\ UNCHANGED <<config_vars, qual, response, sa_vars, sap_vars, invoked, log_errors, pipe_vars>>

\* search_all, lines 51-56: both jobs are done; merge and filter
SaJoin ==
    /\ sa_pc = "join"
    /\ ~OuterLoopTest(ddg, search)
    /\ LET a == ValueOr(ddg)
           b == ValueOr(search)
       IN  IF a.isNone \/ b.isNone
           THEN /\ sa_pc' = "raised"
                /\ UNCHANGED sa_result
           ELSE /\ sa_pc' = "returned"
                /\ sa_result' = Filtered(Combined(a.value, b.value))
    /\ UNCHANGED <<config_vars, qual, response, deadline_passed, ddg, sap_vars, invoked, log_errors, pipe_vars>>

\* write_message(task, msg): the put, into the configured store
WriteMessage(task, msg) ==
    LET key == Key(task, msg)
    IN  /\ writes' = Append(writes, [store |-> IF save_messages THEN "s3" ELSE "local_s3",
                                     key |-> key])
        /\ IF save_messages
           THEN /\ s3' = Put(s3, key, msg)
                /\ UNCHANGED local_s3
           ELSE /\ local_s3' = Put(local_s3, key, msg)
                /\ UNCHANGED s3

\* tasks.search, lines 81-84, once search_all is back. The handles and the
\* locals of search_all and search_and_parse go out of scope here.
StageSearch ==
    /\ pstage = "search"
    /\ sa_pc \in { "returned", "raised" }
    /\ IF sa_pc = "raised"
       THEN /\ pstage' = "aborted"
            /\ UNCHANGED <<message, writes, s3, local_s3>>
       ELSE LET msg == Put(Put(message, "urls", sa_result), "crawl_date", "now")
            IN  /\ message' = msg
                /\ WriteMessage("detect", msg)
                /\ pstage' = "detect"
    /\ ddg' = NewListJob
    /\ search' = NewListJob
    /\ sap_pc' = "idle"
    /\ search_result' = <<>>
    /\ jobs' = <<>>
    /\ time_waited' = 0
    /\ collected' = {}
    /\ lost' = 0
    /\ deadline_passed' = FALSE
    /\ response' = NoResponse
    /\ UNCHANGED <<config_vars, qual, sa_pc, sa_result, invoked, log_errors>>

\* tasks.detect, lines 115-121
StageDetect ==
    /\ pstage = "detect"
    /\ IF DetectRaises(message)
       THEN /\ pstage' = "aborted"
            /\ UNCHANGED <<message, writes, s3, local_s3>>
       ELSE LET msg == DetectBody(message)
            IN  /\ message' = msg
                /\ WriteMessage("rate", msg)
                /\ pstage' = "rate"
    /\ UNCHANGED <<config_vars, qual, response, deadline_passed, sa_vars, sap_vars, invoked, log_errors>>

\* tasks.rate, lines 128-131
StageRate ==
    /\ pstage = "rate"
    /\ IF RateRaises(message)
       THEN /\ pstage' = "aborted"
            /\ UNCHANGED <<message, writes, s3, local_s3>>
       ELSE LET msg == RateBody(message)
            IN  /\ message' = msg
                /\ WriteMessage("save", msg)
                /\ pstage' = "save"
    /\ UNCHANGED <<config_vars, qual, response, deadline_passed, sa_vars, sap_vars, invoked, log_errors>>

\* tasks.save, lines 138-139
StageSave ==
    /\ pstage = "save"
    /\ pstage' = "done"
    /\ UNCHANGED <<config_vars, qual, response, deadline_passed, sa_vars, sap_vars, invoked, log_errors,
                   message, writes, s3, local_s3>>

Next ==
    \/ SaInvalidEngine
    \/ SaSchedule
    \/ DdgRun
    \/ SapSearch
    \/ \E j \in 1..MaxN : JobFinish(j)
    \/ SapPoll
    \/ SapCollect
    \/ Deadline
    \/ SaJoin
    \/ StageSearch
    \/ StageDetect
    \/ StageRate
    \/ StageSave

Spec == Init /\ [][Next]_vars

\* the thread that runs tasks.search is scheduled again and again: the
\* steps of search_and_parse, of search_all and of the stage are taken when
\* they can be. Nothing is assumed of the workers of the jobs.
FairSpec ==
    /\ Init /\ [][Next]_vars
    /\ WF_vars(SapPoll) /\ WF_vars(SapCollect)
    /\ WF_vars(SaJoin) /\ WF_vars(StageSearch)

\* ---- qualify_search_result on its own: one call on arguments drawn from
\* QualifierUrls, QualifierTexts and QualifierDates
main_vars == <<config_vars, deadline_passed, sa_vars, sap_vars, response, invoked,
               log_errors, pipe_vars>>

QInit ==
    /\ InitPipeline
    /\ \E u \in QualifierUrls, t \in QualifierTexts, d \in QualifierDates :
          qual = [pc |-> "called", url |-> u, text |-> t, date |-> d, result |-> FALSE]

Qualify ==
    /\ qual.pc = "called"
    /\ qual' = [qual EXCEPT !.pc = "returned",
                            !.result = qualify_search_result(qual.url, qual.text, qual.date)]
    /\ UNCHANGED main_vars

QNext == Qualify

SpecQualify == QInit /\ [][QNext]_vars

\* ================================================================ claims
\* the jobs that completed before max_search_duration had elapsed
ByDeadline == { j \in 1..Len(jobs) : jobs[j].done /\ jobs[j].byDeadline }

\* the values of the jobs of a set of indices, in the jobs' order
RECURSIVE ValuesOf(_, _)
ValuesOf(idx, n) ==
    IF n = 0 THEN <<>>
    ELSE IF n \in idx THEN Append(ValuesOf(idx, n - 1), jobs[n].value)
         ELSE ValuesOf(idx, n - 1)

\* C1: search_and_parse never returns while some enrichment job is still
\* incomplete and the polled time is below config.max_search_duration.
ClaimC1 ==
    sap_pc = "returned" =>
        (collected = 1..Len(jobs) \/ time_waited >= max_search_duration)

\* C2: with a positive max_search_duration, once it has elapsed (or every
\* job has completed), search_and_parse has returned exactly the values of
\* the jobs that completed before the deadline, and reports the others lost.
ClaimC2 ==
    (/\ sap_pc = "returned"
     /\ max_search_duration > 0
     /\ (deadline_passed \/ AllDone(jobs)))
    => /\ search.value = ValuesOf(ByDeadline, Len(jobs))
       /\ lost = Len(jobs) - Cardinality(ByDeadline)

\* the list a job of search_all yielded, nothing for a job that failed
Yield(job) == IF job.isNone THEN <<>> ELSE job.value

\* C3: search_all never raises, and when exactly one of its two jobs has
\* failed and yields no value, it returns all the results of the other job.
TheoremC3 ==
    /\ sa_pc # "raised"
    /\ (sa_pc = "returned" /\ ddg.done /\ search.done) =>
          /\ (ddg.isNone /\ ~search.isNone) =>
                sa_result = SelectSeq(search.value, LAMBDA x : Truthy(x))
          /\ (search.isNone /\ ~ddg.isNone) =>
                sa_result = SelectSeq(ddg.value, LAMBDA x : Truthy(x))

\* the primary engine has failed entirely and DuckDuckGo's two results are returned
WitnessC3 ==
    /\ sa_pc = "returned" /\ ddg.done /\ search.done
    /\ search.isNone /\ ~ddg.isNone
    /\ Len(ddg.value) = 2 /\ Len(sa_result) = 2

\* C4: with config.search_engine outside {bing, google}, search_all logs an
\* error and returns an empty list; no job is scheduled and no provider
\* adapter is invoked.
TheoremC4 ==
    search_engine \notin Engines =>
        /\ invoked = {}
        /\ ~ddg.started /\ ~search.started /\ sap_pc = "idle" /\ jobs = <<>>
        /\ sa_pc \in { "idle", "returned" }
        /\ sa_pc = "returned" => (sa_result = <<>> /\ "invalid_engine" \in log_errors)

WitnessC4 == search_engine \notin Engines /\ sa_pc = "returned"

\* C5: what search_all returns is the DuckDuckGo job's results followed by
\* the search_and_parse job's results, in their order, less the falsy
\* entries; entries with the same url are all kept.
TheoremC5 ==
    (sa_pc = "returned" /\ ddg.done /\ search.done) =>
        sa_result = SelectSeq(Yield(ddg) \o Yield(search), LAMBDA x : Truthy(x))

\* a falsy entry has been dropped and two entries with one url are returned,
\* DuckDuckGo's ahead of the primary engine's
WitnessC5 ==
    /\ sa_pc = "returned" /\ ddg.done /\ search.done
    /\ Len(sa_result) < Len(Yield(ddg)) + Len(Yield(search))
    /\ \E i, k \in 1..Len(sa_result) :
          /\ i < k
          /\ sa_result[i]["url"] = sa_result[k]["url"]
          /\ sa_result[i]["search_provider"] = "duckduckgo"
          /\ sa_result[k]["search_provider"] # "duckduckgo"

\* ---- pipeline claims
KeysWritten == [i \in 1..Len(writes) |-> writes[i].key]

\* the three keys of one request, in the order of the stages
ExpectedKeys(h) == << <<"detect", ":", h>>, <<"rate", ":", h>>, <<"save", ":", h>> >>

\* the store write_message puts into
Store == IF save_messages THEN s3 ELSE local_s3

Written(task) == <<task, ":", message["hashslug"]>> \in DOMAIN Store

Body(task) == Store[<<task, ":", message["hashslug"]>>]

\* how many keys have been written once the pipeline stands before a stage
KeysBefore(stage) ==
    IF stage = "search" THEN 0 ELSE IF stage = "detect" THEN 1
    ELSE IF stage = "rate" THEN 2 ELSE 3

\* C6: the stages search, detect, rate, save on one message write the keys
\* detect:<hashslug>, rate:<hashslug>, save:<hashslug>, in that order, each
\* of the format "<next stage>:<hashslug>"; save writes no further key.
TheoremC6 ==
    LET expected == ExpectedKeys(message["hashslug"])
    IN  /\ Len(writes) <= 3
        /\ \A i \in 1..Len(writes) : KeysWritten[i] = expected[i]
        /\ pstage # "aborted" => Len(writes) = KeysBefore(pstage)
        /\ DOMAIN Store = { KeysWritten[i] : i \in 1..Len(writes) }

\* all four stages have run
WitnessC6 == pstage = "done" /\ Len(writes) = 3

\* b holds every field of a with the same value
DictSuperset(a, b) == \A k \in DOMAIN a : k \in DOMAIN b /\ b[k] = a[k]

SentencesSuperset(a, b) ==
    /\ Len(a) = Len(b)
    /\ \A i \in 1..Len(a) : DictSuperset(a[i], b[i])

UrlSuperset(a, b) ==
    \A k \in DOMAIN a :
        /\ k \in DOMAIN b
        /\ IF k = "sentences" THEN SentencesSuperset(a[k], b[k]) ELSE b[k] = a[k]

UrlsSuperset(a, b) ==
    /\ Len(a) = Len(b)
    /\ \A i \in 1..Len(a) : UrlSuperset(a[i], b[i])

\* payload b is payload a with fields added, at any depth
PayloadSuperset(a, b) ==
    \A k \in DOMAIN a :
        /\ k \in DOMAIN b
        /\ IF k = "urls" THEN UrlsSuperset(a[k], b[k]) ELSE b[k] = a[k]

StrictPayloadSuperset(a, b) == PayloadSuperset(a, b) /\ a # b

\* some url entry of the payload has a sentence
HasSentence(payload) ==
    \E i \in 1..Len(payload["urls"]) :
        /\ Has(payload["urls"][i], "sentences")
        /\ payload["urls"][i]["sentences"] # <<>>

\* C7 as stated: the payload under rate:<hashslug> is a strict superset of
\* the one under detect:<hashslug>, and the payload under save:<hashslug> a
\* strict superset of the one under rate:<hashslug>, for every urls list.
ClaimC7 ==
    /\ Written("rate") => StrictPayloadSuperset(Body("detect"), Body("rate"))
    /\ Written("save") => StrictPayloadSuperset(Body("rate"), Body("save"))

\* C7 as amended: each payload is a superset of the payload of the stage
\* before, for every urls list; it is a strict superset when some url entry
\* has at least one sentence.
TheoremC7 ==
    /\ Written("rate") =>
          /\ PayloadSuperset(Body("detect"), Body("rate"))
          /\ HasSentence(Body("detect")) => Body("detect") # Body("rate")
    /\ Written("save") =>
          /\ PayloadSuperset(Body("rate"), Body("save"))
          /\ HasSentence(Body("rate")) => Body("rate") # Body("save")

\* two url entries, one with sentences, written through to save:<hashslug>
WitnessC7 ==
    /\ Written("save")
    /\ HasSentence(Body("detect"))
    /\ Len(Body("detect")["urls"]) >= 2

\* C8: when search_all returns an empty list, the search stage writes
\* detect:<hashslug> with urls = [], and detect and rate write their keys
\* without aborting.
TheoremC8 ==
    (sa_pc = "returned" /\ sa_result = <<>>) =>
        /\ pstage # "aborted"
        /\ pstage # "search" => (Written("detect") /\ Body("detect")["urls"] = <<>>)
        /\ pstage \in { "rate", "save", "done" } => Written("rate")
        /\ pstage \in { "save", "done" } => Written("save")

\* every provider contributed nothing, and the three keys are there
WitnessC8 ==
    /\ search_engine \in Engines
    /\ sa_pc = "returned" /\ sa_result = <<>>
    /\ pstage = "done" /\ Written("save") /\ Body("save")["urls"] = <<>>

\* C9: no stage aborts without persisting its output message, whatever
\* message the search stage produced.
ClaimC9 == pstage # "aborted"

\* C10: an enrichment job whose page extraction raised completes with the
\* original url_object as its value, and when it was complete at collection
\* its url_object is among what search_and_parse returns, which has one
\* entry per job that was complete.
TheoremC10 ==
    /\ \A j \in 1..Len(jobs) :
          (jobs[j].done /\ jobs[j].ex = "raise") => jobs[j].value = search_result[j]
    /\ sap_pc = "returned" =>
          /\ Len(search.value) = Cardinality(collected)
          /\ \A j \in collected :
                jobs[j].ex = "raise" =>
                    \E i \in 1..Len(search.value) : search.value[i] = search_result[j]

\* a job whose extraction raised was complete when search_and_parse
\* collected, another was not
WitnessC10 ==
    /\ sap_pc = "returned"
    /\ \E j \in collected : jobs[j].ex = "raise"
    /\ collected # 1..Len(jobs)

\* ---- provider adapters
\* C11: a provider adapter never propagates an exception to its caller; on
\* a failed request (also one that fails before any response object exists)
\* and on a response lacking an expected field it returns an empty sequence.
ClaimC11 ==
    /\ sap_pc # "raised"
    /\ response.kind \in { "neterr", "badjson" } =>
          (sap_pc \in { "poll", "collect", "returned" } /\ search_result = <<>>)
    /\ ddg.done => ~ddg.isNone

\* C12: the time search_and_parse spends asleep in its join never exceeds
\* config.max_search_duration plus one polling interval, whether or not
\* max_search_duration is a multiple of the interval and whichever jobs
\* complete.
TheoremC12 == time_waited <= max_search_duration + PollInterval

\* search_and_parse is back, under a max_search_duration that is no multiple
\* of the polling interval, with a job still running
WitnessC12 ==
    /\ sap_pc = "returned"
    /\ max_search_duration % PollInterval # 0
    /\ ~AllDone(jobs)
    /\ time_waited <= max_search_duration + PollInterval

\* ---- the qualifier
\* the url holds an excluded domain somewhere
HoldsExcludedDomain(url) ==
    \E d \in exclude_domains : \E i, k \in 1..Len(url) : i <= k /\ SubSeq(url, i, k) = d

\* the preview is there and is not English
NonEnglishPreview(text) == text # "" /\ ~is_english(text)

\* the path component ends in ".pdf"
PdfPath(url) ==
    LET path == UrlPath(url)
        n == Len(path)
    IN  n >= 4 /\ path[n - 3] = "." /\ path[n - 2] = "p" /\ path[n - 1] = "d" /\ path[n] = "f"

\* C13: qualify_search_result returns false exactly when the url holds an
\* excluded domain, or the text is non-empty and not English, or the url's
\* path ends in ".pdf"; whatever the date.
TheoremC13 ==
    qual.pc = "returned" =>
        (qual.result <=> ~(HoldsExcludedDomain(qual.url) \/ NonEnglishPreview(qual.text)
                           \/ PdfPath(qual.url)))

\* a call with a date, on a url with ".pdf" outside the end of its path, accepted
WitnessC13 ==
    /\ qual.pc = "returned" /\ qual.result
    /\ qual.date # "None"
    /\ Contains(qual.url, <<".", "p", "d", "f">>)

\* C14: no result of the primary engine whose url holds an excluded domain
\* is in what search_all returns, whatever DuckDuckGo returns and whichever
\* enrichment jobs complete.
TheoremC14 ==
    sa_pc = "returned" =>
        \A i \in 1..Len(sa_result) :
            sa_result[i]["search_provider"] \in Engines =>
                ~HoldsExcludedDomain(sa_result[i]["url"])

\* the provider's response held an item with an excluded domain, DuckDuckGo
\* returned nothing, and search_all returned the other item
WitnessC14 ==
    /\ sa_pc = "returned" /\ pstage = "search"
    /\ \E u \in response.links : HoldsExcludedDomain(u)
    /\ ddg.done /\ Yield(ddg) = <<>>
    /\ Len(sa_result) = 1

\* C15: the outer join of search_all has no deadline: search_all leaves its
\* wait loop only in a state where both the DuckDuckGo job and the
\* search_and_parse job are done, however much time has gone by.
TheoremC15 ==
    [][(sa_pc = "join" /\ sa_pc' # "join") => (ddg.done /\ search.done)]_vars

\* the enrichment deadline has passed and search_and_parse is back, and
\* search_all still waits for DuckDuckGo
WitnessC15 ==
    /\ sa_pc = "join"
    /\ deadline_passed
    /\ search.done /\ ~ddg.done
    /\ OuterLoopTest(ddg, search)

\* C16: under fair scheduling, once the DuckDuckGo adapter call and the
\* provider's search call have both returned, search_all eventually returns,
\* whether or not any enrichment job ever completes, and the search stage
\* eventually writes detect:<hashslug>.
BothCallsReturned ==
    /\ pstage = "search" /\ sa_pc = "join"
    /\ ddg.done /\ ~ddg.isNone
    /\ sap_pc \in { "poll", "collect", "returned" }

TheoremC16 ==
    /\ BothCallsReturned ~> (pstage = "search" /\ sa_pc = "returned")
    /\ BothCallsReturned ~> Written("detect")

\* search_all is back while none of the MaxN enrichment jobs is done
WitnessC16 ==
    /\ pstage = "search" /\ sa_pc = "returned"
    /\ ~ddg.isNone /\ ~search.isNone
    /\ Len(jobs) = MaxN
    /\ \A j \in 1..Len(jobs) : ~jobs[j].done

\* C17: a job left behind by search_and_parse is not cancelled: it can still
\* complete, and when it does the list search_and_parse returned keeps its
\* entries, gains none, and what search_all returns does not change.
LateCompletion(j) ==
    /\ sap_pc = "returned"
    /\ j \in DOMAIN jobs /\ j \in DOMAIN jobs'
    /\ ~jobs[j].done /\ jobs'[j].done

TheoremC17 ==
    /\ [](\A j \in 1..Len(jobs) :
            (pstage = "search" /\ sap_pc = "returned" /\ ~jobs[j].done) => ENABLED JobFinish(j))
    /\ [][\A j \in 1..Len(jobs) :
            LateCompletion(j) => (search' = search /\ sa_result' = sa_result /\ lost' = lost)]_vars

\* a job that was not collected has completed, with a page, after search_all
\* returned without it
WitnessC17 ==
    /\ sap_pc = "returned" /\ sa_pc = "returned"
    /\ \E j \in 1..Len(jobs) :
          /\ j \notin collected
          /\ jobs[j].done /\ jobs[j].ex = "ok"
          /\ \A i \in 1..Len(sa_result) : sa_result[i] # jobs[j].value

\* C18: the hashslug of the message is the same in every state of the
\* pipeline: no stage adds, removes or changes message['hashslug'], and every
\* key written, and every payload stored, carries that hashslug.
HashslugKept ==
    /\ Has(message, "hashslug") /\ Has(message', "hashslug")
    /\ message'["hashslug"] = message["hashslug"]

TheoremC18 ==
    /\ [][HashslugKept]_vars
    /\ [](\A i \in 1..Len(writes) :
            /\ writes[i].key[3] = message["hashslug"]
            /\ Store[writes[i].key]["hashslug"] = message["hashslug"])

\* all four stages have run on the message of one hashslug, with a sentence
\* that detect and rate have worked on
WitnessC18 ==
    /\ pstage = "done"
    /\ message["hashslug"] = "serapis:0c1f"
    /\ { writes[i].key[3] : i \in 1..Len(writes) } = { "serapis:0c1f" }
    /\ \E i \in 1..Len(message["urls"]) :
          /\ Has(message["urls"][i], "sentences")
          /\ message["urls"][i]["sentences"] # <<>>

\* C19: detect, rate and save never reorder, drop or duplicate the url
\* entries of the message nor the sentences of any url entry: whatever stages
\* have run, each url entry has the sentences of the message the search stage
\* wrote, in the same order, with only fields added to each sentence.
UrlNames(payload) == [i \in 1..Len(payload["urls"]) |-> payload["urls"][i]["url"]]

SentenceTexts(url_object) ==
    IF Has(url_object, "sentences")
    THEN [k \in 1..Len(url_object["sentences"]) |-> url_object["sentences"][k]["s"]]
    ELSE <<>>

SameSentences(a, b) ==
    /\ UrlNames(a) = UrlNames(b)
    /\ \A i \in 1..Len(a["urls"]) :
          LET ua == a["urls"][i]
              ub == b["urls"][i]
          IN  /\ Has(ua, "sentences") <=> Has(ub, "sentences")
              /\ SentenceTexts(ua) = SentenceTexts(ub)
              /\ Has(ua, "sentences") => SentencesSuperset(ua["sentences"], ub["sentences"])

TheoremC19 ==
    Written("detect") =>
        /\ SameSentences(Body("detect"), message)
        /\ Written("rate") => SameSentences(Body("detect"), Body("rate"))
        /\ Written("save") => SameSentences(Body("detect"), Body("save"))

\* every stage has run on a message with a url entry of two different
\* sentences, which now carry the fields detect and rate add
WitnessC19 ==
    /\ pstage = "done" /\ Written("save")
    /\ \E i \in 1..Len(message["urls"]) :
          LET ss == message["urls"][i]["sentences"]
          IN  /\ Len(ss) >= 2
              /\ ss[1]["s"] # ss[2]["s"]
              /\ Has(ss[1], "patterns") /\ Has(ss[2], "rating")

\* C20: the list search_and_parse returns is an order-preserving subsequence
\* of the enrichment values of the raw results, in the provider's order: its
\* entries are the values of jobs of strictly increasing index, so at most
\* one per raw result and at most N in all, and the lost count is N minus the
\* number of entries and never negative.
StrictlyIncreasing(f) == \A a, b \in DOMAIN f : a < b => f[a] < f[b]

SubsequenceOfJobs(result) ==
    \E f \in [1..Len(result) -> 1..Len(jobs)] :
        /\ StrictlyIncreasing(f)
        /\ \A k \in 1..Len(result) :
              /\ jobs[f[k]].done
              /\ result[k] = jobs[f[k]].value
              /\ Truthy(result[k]) => result[k]["url"] = search_result[f[k]]["url"]

TheoremC20 ==
    sap_pc = "returned" =>
        /\ Len(jobs) = Len(search_result)
        /\ Len(search.value) <= Len(search_result)
        /\ SubsequenceOfJobs(search.value)
        /\ lost = Len(search_result) - Len(search.value)
        /\ lost >= 0

\* two raw results of different urls, both enriched and returned
WitnessC20 ==
    /\ sap_pc = "returned"
    /\ Len(search_result) = 2 /\ Len(search.value) = 2 /\ lost = 0
    /\ search_result[1]["url"] # search_result[2]["url"]
    /\ Truthy(search.value[1]) /\ Truthy(search.value[2])

====
